---- MODULE Spec2Model ----
(***************************************************************************)
(* Model of object-detection.ipynb: the code cells of the notebook, run    *)
(* top to bottom by one kernel.  The state is the kernel's namespace, the  *)
(* files the cells create, and the position of the run.                    *)
(*                                                                         *)
(* Text (class names, dictionary keys, YAML scalars) is a sequence of      *)
(* one-character strings, so that the serializer can be modelled by what   *)
(* it does to the characters.  A path is a sequence of path components.    *)
(***************************************************************************)
EXTENDS Integers, Sequences, FiniteSets, TLC

\* ------------------------------------------------------------------ bounds
\* longest class listing the dataset service answers with
MaxClasses == 2
\* how often the two data.yaml cells are run again in SpecRerun
MaxReruns == 2

\* ------------------------------------------------------------------- text
Digits == <<"0", "1", "2", "3", "4", "5", "6", "7", "8", "9">>

Alphabet ==
  <<"-", ".", "/">> \o Digits \o <<"a", "b", "c", "d", "e", "f", "g", "h", "i", "j", "k", "l", "m",
              "n", "o", "p", "q", "r", "s", "t", "u", "v", "w", "x", "y", "z">>

\* code point order of a character, as Python's str comparison uses it
Ord(c) == CHOOSE i \in 1..Len(Alphabet) : Alphabet[i] = c

RECURSIVE TextLess(_, _)
\* s < t for Python strings
TextLess(s, t) ==
  IF t = <<>> THEN FALSE
  ELSE IF s = <<>> THEN TRUE
  ELSE IF Head(s) = Head(t) THEN TextLess(Tail(s), Tail(t))
  ELSE Ord(Head(s)) < Ord(Head(t))

DigitVal(c) == (CHOOSE i \in 1..10 : Digits[i] = c) - 1

RECURSIVE IntToText(_)
\* str(n) for n >= 0
IntToText(n) ==
  IF n < 10 THEN <<Digits[n + 1]>>
  ELSE IntToText(n \div 10) \o <<Digits[(n % 10) + 1]>>

RECURSIVE TextToInt(_)
\* int(t) for a decimal text
TextToInt(t) ==
  IF t = <<>> THEN 0
  ELSE 10 * TextToInt(SubSeq(t, 1, Len(t) - 1)) + DigitVal(t[Len(t)])

\* class names the dataset service may answer with: a plain word, a digit
\* (digit-recognition datasets), and a word YAML reads as a bool
ClassNames == { <<"c", "a", "t">>, <<"7">>, <<"n", "o">> }

\* per-class annotation counts the service may answer with
AnnotationCounts == {1, 2}

\* ---------------------------------------------------------- Python values
PyStr(t) == [type |-> "str", text |-> t, num |-> 0, items |-> <<>>]
PyInt(n) == [type |-> "int", text |-> <<>>, num |-> n, items |-> <<>>]
PyBool(b) == [type |-> "bool", text |-> <<>>, num |-> IF b THEN 1 ELSE 0, items |-> <<>>]
PyNone == [type |-> "NoneType", text |-> <<>>, num |-> 0, items |-> <<>>]
PyList(xs) == [type |-> "list", text |-> <<>>, num |-> 0, items |-> xs]

\* A Python dict is the sequence of its <<key, value>> items in insertion
\* order, with pairwise distinct keys.
Keys(d) == [i \in 1..Len(d) |-> d[i][1]]

KeySet(d) == {d[i][1] : i \in 1..Len(d)}

HasKey(d, k) == k \in KeySet(d)

Get(d, k) == d[CHOOSE i \in 1..Len(d) : d[i][1] = k][2]

\* d[k] = v : a new key goes to the end, an old key keeps its position
DictSet(d, k, v) ==
  IF HasKey(d, k)
  THEN [i \in 1..Len(d) |-> IF d[i][1] = k THEN <<k, v>> ELSE d[i]]
  ELSE Append(d, <<k, v>>)

RECURSIVE DictFromPairs(_)
\* dict(pairs), as a JSON object or a YAML mapping is turned into a dict
DictFromPairs(pairs) ==
  IF pairs = <<>> THEN <<>>
  ELSE LET n == Len(pairs)
       IN DictSet(DictFromPairs(SubSeq(pairs, 1, n - 1)), pairs[n][1], pairs[n][2])

\* --------------------------------------------------- the YAML serializer
\* A YAML node: a scalar with a style and its text, or a block sequence.
ScalarNode(style, t) == [kind |-> "scalar", style |-> style, text |-> t, items |-> <<>>]
SeqNode(ns) == [kind |-> "seq", style |-> "block", text |-> <<>>, items |-> ns]

BoolTrueWords == { <<"y", "e", "s">>, <<"t", "r", "u", "e">>, <<"o", "n">> }
BoolFalseWords == { <<"n", "o">>, <<"f", "a", "l", "s", "e">>, <<"o", "f", "f">> }
NullWords == { <<>>, <<"n", "u", "l", "l">> }

IsDigit(c) == \E i \in 1..10 : Digits[i] = c

IsOctalText(t) ==
  /\ Len(t) > 1
  /\ t[1] = "0"
  /\ \A i \in 2..Len(t) : IsDigit(t[i]) /\ DigitVal(t[i]) < 8

IsDecimalText(t) ==
  /\ Len(t) > 0
  /\ \A i \in 1..Len(t) : IsDigit(t[i])
  /\ (Len(t) = 1 \/ t[1] # "0")

RECURSIVE OctToInt(_)
OctToInt(t) ==
  IF t = <<>> THEN 0
  ELSE 8 * OctToInt(SubSeq(t, 1, Len(t) - 1)) + DigitVal(t[Len(t)])

\* the tag the implicit resolver gives a plain scalar
ResolveTag(t) ==
  IF t \in BoolTrueWords \cup BoolFalseWords THEN "bool"
  ELSE IF IsDecimalText(t) \/ IsOctalText(t) THEN "int"
  ELSE IF t \in NullWords THEN "null"
  ELSE "str"

\* the slip a hand-written dumper makes: every string is written plain
RepresentStrUnquoted(t) == ScalarNode("plain", t)

\* SafeRepresenter.represent_str and the emitter's choice of style: a string
\* is written plain only if a plain scalar of that text resolves to a string
RepresentStr(t) ==
  IF ResolveTag(t) = "str" THEN ScalarNode("plain", t) ELSE ScalarNode("single", t)

RepresentInt(n) == ScalarNode("plain", IntToText(n))

\* scalars of the configuration record
RepresentScalar(v) ==
  IF v.type = "int" THEN RepresentInt(v.num) ELSE RepresentStr(v.text)

Represent(v) ==
  IF v.type = "list"
  THEN SeqNode([i \in 1..Len(v.items) |-> RepresentScalar(v.items[i])])
  ELSE RepresentScalar(v)

RECURSIVE InsertSorted(_, _)
InsertSorted(item, sorted) ==
  IF sorted = <<>> THEN <<item>>
  ELSE IF TextLess(item[1].text, Head(sorted)[1].text) THEN <<item>> \o sorted
  ELSE <<Head(sorted)>> \o InsertSorted(item, Tail(sorted))

RECURSIVE SortedItems(_)
\* the items of a dict with string keys, in the order of sorted(d)
SortedItems(d) ==
  IF d = <<>> THEN <<>>
  ELSE InsertSorted(d[Len(d)], SortedItems(SubSeq(d, 1, Len(d) - 1)))

\* represent_mapping with the default sort_keys=True: one <<key node, value
\* node>> entry per item, the items sorted by key
RepresentMapping(d) ==
  LET s == SortedItems(d)
  IN [i \in 1..Len(s) |-> <<Represent(s[i][1]), Represent(s[i][2])>>]

\* yaml.dump(data, fp, yaml.SafeDumper): the document written to fp
Dump(d) == RepresentMapping(d)

\* what a loader constructs from a scalar node
ConstructScalar(n) ==
  IF n.style # "plain" THEN PyStr(n.text)
  ELSE IF ResolveTag(n.text) = "int"
       THEN PyInt(IF IsOctalText(n.text) THEN OctToInt(n.text) ELSE TextToInt(n.text))
  ELSE IF ResolveTag(n.text) = "bool" THEN PyBool(n.text \in BoolTrueWords)
  ELSE IF ResolveTag(n.text) = "null" THEN PyNone
  ELSE PyStr(n.text)

Construct(n) ==
  IF n.kind = "seq"
  THEN PyList([i \in 1..Len(n.items) |-> ConstructScalar(n.items[i])])
  ELSE ConstructScalar(n)

\* reading a document back: a dict in the order of the document
Load(doc) ==
  DictFromPairs([i \in 1..Len(doc) |-> <<Construct(doc[i][1]), Construct(doc[i][2])>>])

\* -------------------------------------------------------------- paths
RECURSIVE SplitPath(_)
\* the components of a path written with "/" separators
SplitPath(t) ==
  IF t = <<>> THEN <<>>
  ELSE IF \E i \in 1..Len(t) : t[i] = "/"
       THEN LET i == CHOOSE j \in 1..Len(t) :
                       t[j] = "/" /\ \A k \in 1..(j - 1) : t[k] # "/"
            IN <<SubSeq(t, 1, i - 1)>> \o SplitPath(SubSeq(t, i + 1, Len(t)))
       ELSE <<t>>

\* base / rel, with "." components dropped
JoinPath(base, rel) ==
  base \o SelectSeq(SplitPath(rel), LAMBDA c : c # <<".">>)

\* ------------------------------------------- literals of the code cells
\* the dictionary keys of cell 1a05f1bc
KPath == PyStr(<<"p", "a", "t", "h">>)
KTrain == PyStr(<<"t", "r", "a", "i", "n">>)
KVal == PyStr(<<"v", "a", "l">>)
KTest == PyStr(<<"t", "e", "s", "t">>)
KNc == PyStr(<<"n", "c">>)
KNames == PyStr(<<"n", "a", "m", "e", "s">>)

\* the file cell 3b06d0e7 opens, and the mode it opens it in
DataYamlFile == <<"d", "a", "t", "a", ".", "y", "a", "m", "l">>
OpenMode == "w"

\* version.download("yolov8", location="datasets")
DownloadLocation == <<"d", "a", "t", "a", "s", "e", "t", "s">>

\* the split folders a dataset of the service can have: all three, or only
\* two of them (the note of markdown cell cec11e20)
SplitFolders == { <<"t", "r", "a", "i", "n">>, <<"v", "a", "l", "i", "d">>, <<"t", "e", "s", "t">> }
DatasetSplits ==
  { SplitFolders, { <<"t", "r", "a", "i", "n">>, <<"v", "a", "l", "i", "d">> }, { <<"t", "r", "a", "i", "n">>, <<"t", "e", "s", "t">> } }

\* YOLO("yolov8s.pt", task="detect")
ModelFile == <<"y", "o", "l", "o", "v", "8", "s", ".", "p", "t">>

\* the model argument of the export command of cell 9d72d204
ExportModel == <<"o", "b", "j", "e", "c", "t", "-", "d", "e", "t", "e", "c", "t", "o", "r", "/", "t", "e", "s", "t", "-", "r", "u", "n", "-", "3", "/", "w", "e", "i", "g", "h", "t", "s", "/", "b", "e", "s", "t", ".", "p", "t">>
ExportFormat == "tflite"

KData == PyStr(<<"d", "a", "t", "a">>)
KProject == PyStr(<<"p", "r", "o", "j", "e", "c", "t">>)
KName == PyStr(<<"n", "a", "m", "e">>)
PyFloat(t) == [type |-> "float", text |-> t, num |-> 0, items |-> <<>>]

\* simple_hyperparameters of cell 28803be5
SimpleHyperparameters ==
  << <<PyStr(<<"d", "e", "v", "i", "c", "e">>), PyInt(0)>>,
     <<KData, PyStr(<<"d", "a", "t", "a", ".", "y", "a", "m", "l">>)>>,
     <<PyStr(<<"e", "p", "o", "c", "h", "s">>), PyInt(20)>>,
     <<PyStr(<<"b", "a", "t", "c", "h">>), PyInt(16)>>,
     <<PyStr(<<"s", "e", "e", "d">>), PyInt(1337)>> >>

\* hyperparameters of cell 12248b5b, with a misspelt data entry
HyperparametersOtherData ==
  << <<PyStr(<<"d", "e", "v", "i", "c", "e">>), PyInt(0)>>,
     <<KData, PyStr(<<"d", "a", "t", "a", "s", "e", "t", "s", "/", "d", "a", "t", "a", ".", "y", "a", "m", "l">>)>>,
     <<PyStr(<<"e", "p", "o", "c", "h", "s">>), PyInt(20)>>,
     <<PyStr(<<"b", "a", "t", "c", "h">>), PyInt(16)>>,
     <<PyStr(<<"o", "p", "t", "i", "m", "i", "z", "e", "r">>), PyStr(<<"A", "d", "a", "m", "W">>)>>,
     <<PyStr(<<"c", "o", "s", "_", "l", "r">>), PyBool(TRUE)>>,
     <<PyStr(<<"l", "r", "0">>), PyFloat(<<"1", "e", "-", "4">>)>>,
     <<PyStr(<<"w", "a", "r", "m", "u", "p", "_", "e", "p", "o", "c", "h", "s">>), PyInt(5)>>,
     <<KProject, PyStr(<<"o", "b", "j", "e", "c", "t", "-", "d", "e", "t", "e", "c", "t", "i", "o", "n">>)>>,
     <<KName, PyStr(<<"t", "r", "a", "i", "n", "i", "n", "g", "-", "1">>)>>,
     <<PyStr(<<"v", "e", "r", "b", "o", "s", "e">>), PyBool(TRUE)>>,
     <<PyStr(<<"s", "e", "e", "d">>), PyInt(1337)>> >>

\* hyperparameters of cell 12248b5b
Hyperparameters ==
  << <<PyStr(<<"d", "e", "v", "i", "c", "e">>), PyInt(0)>>,
     <<KData, PyStr(<<"d", "a", "t", "a", ".", "y", "a", "m", "l">>)>>,
     <<PyStr(<<"e", "p", "o", "c", "h", "s">>), PyInt(20)>>,
     <<PyStr(<<"b", "a", "t", "c", "h">>), PyInt(16)>>,
     <<PyStr(<<"o", "p", "t", "i", "m", "i", "z", "e", "r">>), PyStr(<<"A", "d", "a", "m", "W">>)>>,
     <<PyStr(<<"c", "o", "s", "_", "l", "r">>), PyBool(TRUE)>>,
     <<PyStr(<<"l", "r", "0">>), PyFloat(<<"1", "e", "-", "4">>)>>,
     <<PyStr(<<"w", "a", "r", "m", "u", "p", "_", "e", "p", "o", "c", "h", "s">>), PyInt(5)>>,
     <<KProject, PyStr(<<"o", "b", "j", "e", "c", "t", "-", "d", "e", "t", "e", "c", "t", "i", "o", "n">>)>>,
     <<KName, PyStr(<<"t", "r", "a", "i", "n", "i", "n", "g", "-", "1">>)>>,
     <<PyStr(<<"v", "e", "r", "b", "o", "s", "e">>), PyBool(TRUE)>>,
     <<PyStr(<<"s", "e", "e", "d">>), PyInt(1337)>> >>

\* folder and file names the training call uses below its run folder
WeightsDir == <<"w", "e", "i", "g", "h", "t", "s">>
BestPt == <<"b", "e", "s", "t", ".", "p", "t">>
LastPt == <<"l", "a", "s", "t", ".", "p", "t">>

\* ------------------------------------------------------------- the run
VARIABLES
  pc,                     \* the code cell that runs next, "done" or "halted"
  error,                  \* the exception that ended the run, or "none"
  raised,                 \* <<cell, exception>> pairs the libraries raised
  runs,                   \* how often each code cell was started
  completed,              \* the code cells that ran to their end
  shell,                  \* exit status of the two shell commands, -1 before
  fs,                     \* the files and folders: path -> [kind, doc]
  datasets_dir,           \* the detection library's datasets_dir setting
  bound,                  \* the names bound in the kernel
  classes,                \* project.classes
  labels,                 \* labels
  nc,                     \* nc
  data_yaml,              \* data_yaml
  simple_hyperparameters, \* simple_hyperparameters
  hyperparameters,        \* hyperparameters
  trainData,              \* the path the training call read its data from
  trainDoc,               \* the document the training call read there
  created,                \* the paths the training call created
  exportArg,              \* the model path given to the export command
  reruns                  \* how often the data.yaml cells were run again

vars ==
  <<pc, error, raised, runs, completed, shell, fs, datasets_dir, bound,
    classes, labels, nc, data_yaml, simple_hyperparameters, hyperparameters,
    trainData, trainDoc, created, exportArg, reruns>>

\* the code cells in the order of the notebook
Cells ==
  <<"install", "download", "assemble", "dump", "model", "simple_hp", "hp",
    "train", "val", "export">>

CellSet == {Cells[i] : i \in 1..Len(Cells)}

CellIndex(c) == CHOOSE i \in 1..Len(Cells) : Cells[i] = c

\* a notebook whose training cell was placed before the dump cell
NextCellTrainFirst(c) ==
  CASE c = "assemble" -> "model"
    [] c = "hp" -> "train"
    [] c = "train" -> "dump"
    [] c = "dump" -> "val"
    [] OTHER -> IF CellIndex(c) = Len(Cells) THEN "done" ELSE Cells[CellIndex(c) + 1]

\* the cell below c
NextCell(c) ==
  IF CellIndex(c) = Len(Cells) THEN "done" ELSE Cells[CellIndex(c) + 1]

Dir == [kind |-> "dir", doc |-> <<>>]
File(doc) == [kind |-> "file", doc |-> doc]

Exists(f, path) == path \in DOMAIN f

MkDirs(f, paths) ==
  [p \in DOMAIN f \cup paths |-> IF p \in DOMAIN f THEN f[p] ELSE Dir]

\* open(path, mode) followed by a write of doc and the close
WriteFile(f, path, mode, doc) ==
  [p \in DOMAIN f \cup {path} |->
     IF p # path THEN f[p]
     ELSE IF mode = "a" /\ Exists(f, path) THEN File(f[p].doc \o doc)
     ELSE File(doc)]

\* what earlier sessions may have left in the working directory: a run of
\* this notebook, and the run the export command names
PriorTraining ==
  { <<<<"o", "b", "j", "e", "c", "t", "-", "d", "e", "t", "e", "c", "t", "i", "o", "n">>>>,
    <<<<"o", "b", "j", "e", "c", "t", "-", "d", "e", "t", "e", "c", "t", "i", "o", "n">>, <<"t", "r", "a", "i", "n", "i", "n", "g", "-", "1">>>> }

PriorExportRun ==
  { <<<<"o", "b", "j", "e", "c", "t", "-", "d", "e", "t", "e", "c", "t", "o", "r">>>>,
    <<<<"o", "b", "j", "e", "c", "t", "-", "d", "e", "t", "e", "c", "t", "o", "r">>, <<"t", "e", "s", "t", "-", "r", "u", "n", "-", "3">>>>,
    <<<<"o", "b", "j", "e", "c", "t", "-", "d", "e", "t", "e", "c", "t", "o", "r">>, <<"t", "e", "s", "t", "-", "r", "u", "n", "-", "3">>, WeightsDir>> }

PriorWeights == <<<<"o", "b", "j", "e", "c", "t", "-", "d", "e", "t", "e", "c", "t", "o", "r">>, <<"t", "e", "s", "t", "-", "r", "u", "n", "-", "3">>, WeightsDir, BestPt>>

InitialFs(withTraining, withExportRun) ==
  LET dirs == (IF withTraining THEN PriorTraining ELSE {})
              \cup (IF withExportRun THEN PriorExportRun ELSE {})
      f == MkDirs(<<>>, dirs)
  IN IF withExportRun THEN WriteFile(f, PriorWeights, "w", <<>>) ELSE f

Init ==
  /\ pc = "install"
  /\ error = "none"
  /\ raised = {}
  /\ runs = [c \in CellSet |-> 0]
  /\ completed = {}
  /\ shell = [c \in {"install", "export"} |-> -1]
  /\ \E t \in BOOLEAN, e \in BOOLEAN : fs = InitialFs(t, e)
  /\ datasets_dir \in { <<>>, <<DownloadLocation>> }
  /\ bound = {}
  /\ classes = <<>>
  /\ labels = <<>>
  /\ nc = 0
  /\ data_yaml = <<>>
  /\ simple_hyperparameters = <<>>
  /\ hyperparameters = <<>>
  /\ trainData = <<>>
  /\ trainDoc = <<>>
  /\ created = {}
  /\ exportArg = <<>>
  /\ reruns = 0

\* a cell is started
Start(c) ==
  /\ pc = c
  /\ runs' = [runs EXCEPT ![c] = @ + 1]

\* a cell ran to its end: the run goes on with the cell below
Finish(c) ==
  /\ pc' = NextCell(c)
  /\ completed' = completed \cup {c}
  /\ UNCHANGED <<error, raised>>

\* an exception handler around the cell: the exception is swallowed and the
\* run goes on with the cell below
RaiseSwallowed(c, exc) ==
  /\ raised' = raised \cup {<<c, exc>>}
  /\ pc' = NextCell(c)
  /\ error' = "none"
  /\ completed' = completed \cup {c}

\* a library call of cell c raises exc and no cell catches it: the run ends
\* there with that exception
Raise(c, exc) ==
  /\ raised' = raised \cup {<<c, exc>>}
  /\ pc' = "halted"
  /\ error' = exc
  /\ completed' = completed

\* the failures of section 7: bad API key, missing dataset, misconfigured
\* hyperparameters, out of memory
Exceptions(c) ==
  CASE c = "download" -> {"bad API key", "missing dataset"}
    [] c = "model" -> {"missing weights"}
    [] c = "train" -> {"misconfigured hyperparameters", "out of memory"}
    [] c = "val" -> {"out of memory"}
    [] OTHER -> {}

\* --------------------------------------------------------- the code cells
kernel == <<bound, classes, labels, nc, data_yaml, simple_hyperparameters, hyperparameters>>
training == <<trainData, trainDoc, created>>

\* cell f67be741: ! pip install ...  A shell command never raises; its exit
\* status is all that is left of a failure.
Install ==
  /\ Start("install")
  /\ \E status \in {0, 1} : shell' = [shell EXCEPT !["install"] = status]
  /\ Finish("install")
  /\ UNCHANGED <<fs, datasets_dir, kernel, training, exportArg, reruns>>

\* the class listings the dataset service can answer with
Responses ==
  UNION { [1..n -> ClassNames \X AnnotationCounts] : n \in 0..MaxClasses }

\* project.classes: the dict made of the listing, class name -> count
ProjectClasses(response) ==
  DictFromPairs([i \in 1..Len(response) |->
                   <<PyStr(response[i][1]), PyInt(response[i][2])>>])

\* the names the four statements of cell 4b95551d bind, in their order
DownloadNames == <<"rf", "project", "version", "dataset">>

\* what version.download leaves under its location
Downloaded(f, splits) ==
  WriteFile(
    MkDirs(f, {<<DownloadLocation>>} \cup {<<DownloadLocation, s>> : s \in splits}),
    <<DownloadLocation, DataYamlFile>>, "w", <<>>)

\* cell 4b95551d, one of its four calls raising
DownloadFails ==
  /\ Start("download")
  /\ \E k \in 0..3, exc \in Exceptions("download"), r \in Responses :
       /\ bound' = bound \cup {DownloadNames[i] : i \in 1..k}
       /\ classes' = IF k >= 2 THEN ProjectClasses(r) ELSE classes
       /\ Raise("download", exc)
  /\ UNCHANGED <<shell, fs, datasets_dir, labels, nc, data_yaml,
                 simple_hyperparameters, hyperparameters, training, exportArg, reruns>>

\* cell 4b95551d
Download ==
  /\ Start("download")
  /\ \E r \in Responses, splits \in DatasetSplits :
       /\ classes' = ProjectClasses(r)
       /\ fs' = Downloaded(fs, splits)
  /\ bound' = bound \cup {DownloadNames[i] : i \in 1..4}
  /\ Finish("download")
  /\ UNCHANGED <<shell, datasets_dir, labels, nc, data_yaml,
                 simple_hyperparameters, hyperparameters, training, exportArg, reruns>>

RECURSIVE Repeat(_, _)
Repeat(x, n) == IF n = 0 THEN <<>> ELSE <<x>> \o Repeat(x, n - 1)

RECURSIVE LabelsPerAnnotation(_)
\* one label per counted annotation instead of one per class
LabelsPerAnnotation(cls) ==
  IF cls = <<>> THEN <<>>
  ELSE Repeat(Head(cls)[1], Head(cls)[2].num) \o LabelsPerAnnotation(Tail(cls))

\* labels = list(project.classes.keys())
Labels(cls) == Keys(cls)

\* nc counted one too many
NcOffByOne(ls) == Len(ls) + 1

\* nc = len(labels)
Nc(ls) == Len(ls)

\* a record without its test entry
DataYamlNoTest(n, ls) ==
  << <<KPath, PyStr(<<".">>)>>,
     <<KTrain, PyStr(<<"t", "r", "a", "i", "n">>)>>,
     <<KVal, PyStr(<<"v", "a", "l", "i", "d">>)>>,
     <<KNc, PyInt(n)>>,
     <<KNames, PyList(ls)>> >>

\* the dict literal of cell 1a05f1bc
DataYaml(n, ls) ==
  << <<KPath, PyStr(<<".">>)>>,
     <<KTrain, PyStr(<<"t", "r", "a", "i", "n">>)>>,
     <<KVal, PyStr(<<"v", "a", "l", "i", "d">>)>>,
     <<KTest, PyStr(<<"t", "e", "s", "t">>)>>,
     <<KNc, PyInt(n)>>,
     <<KNames, PyList(ls)>> >>

\* cell 1a05f1bc
Assemble ==
  /\ Start("assemble")
  /\ labels' = Labels(classes)
  /\ nc' = Nc(labels')
  /\ data_yaml' = DataYaml(nc', labels')
  /\ bound' = bound \cup {"labels", "nc", "data_yaml"}
  /\ Finish("assemble")
  /\ UNCHANGED <<shell, fs, datasets_dir, classes, simple_hyperparameters,
                 hyperparameters, training, exportArg, reruns>>

\* the file a cell opening data.yaml for appending leaves
DumpedAppending(f, d) == WriteFile(f, <<DataYamlFile>>, "a", Dump(d))

\* the two statements of cell 3b06d0e7: open("data.yaml", "w"), yaml.dump
Dumped(f, d) == WriteFile(f, <<DataYamlFile>>, OpenMode, Dump(d))

\* cell 3b06d0e7
DumpCell ==
  /\ Start("dump")
  /\ fs' = Dumped(fs, data_yaml)
  /\ bound' = bound \cup {"yaml", "fp"}
  /\ Finish("dump")
  /\ UNCHANGED <<shell, datasets_dir, classes, labels, nc, data_yaml,
                 simple_hyperparameters, hyperparameters, training, exportArg, reruns>>

\* cell b5db3391, the library raising
ModelFails ==
  /\ Start("model")
  /\ \E exc \in Exceptions("model") : Raise("model", exc)
  /\ UNCHANGED <<shell, fs, datasets_dir, kernel, training, exportArg, reruns>>

\* cell b5db3391: model = YOLO("yolov8s.pt", task="detect")
ModelCell ==
  /\ Start("model")
  /\ fs' = WriteFile(fs, <<ModelFile>>, "w", <<>>)
  /\ bound' = bound \cup {"YOLO", "model"}
  /\ Finish("model")
  /\ UNCHANGED <<shell, datasets_dir, classes, labels, nc, data_yaml,
                 simple_hyperparameters, hyperparameters, training, exportArg, reruns>>

\* cell 28803be5
SimpleHp ==
  /\ Start("simple_hp")
  /\ simple_hyperparameters' = SimpleHyperparameters
  /\ bound' = bound \cup {"simple_hyperparameters"}
  /\ Finish("simple_hp")
  /\ UNCHANGED <<shell, fs, datasets_dir, classes, labels, nc, data_yaml,
                 hyperparameters, training, exportArg, reruns>>

\* cell 12248b5b
Hp ==
  /\ Start("hp")
  /\ hyperparameters' = Hyperparameters
  /\ bound' = bound \cup {"hyperparameters"}
  /\ Finish("hp")
  /\ UNCHANGED <<shell, fs, datasets_dir, classes, labels, nc, data_yaml,
                 simple_hyperparameters, training, exportArg, reruns>>

\* the data file the training call is given
DataArg(hp) == SplitPath(Get(hp, KData).text)

\* the folder <project>/<name> of the training call
RunDir(hp) == JoinPath(SplitPath(Get(hp, KProject).text), Get(hp, KName).text)

\* the library never reuses a run folder: <name>2, <name>3, ... is taken when
\* <name> exists
SaveDir(f, hp) ==
  LET dir == RunDir(hp)
      parent == SubSeq(dir, 1, Len(dir) - 1)
      numbered(n) == Append(parent, dir[Len(dir)] \o IntToText(n))
  IN IF ~Exists(f, dir) THEN dir
     ELSE numbered(CHOOSE n \in 2..9 :
                     /\ ~Exists(f, numbered(n))
                     /\ \A m \in 2..(n - 1) : Exists(f, numbered(m)))

\* the folders and weights files a completed training leaves
TrainingOutput(f, hp) ==
  LET dir == SaveDir(f, hp)
  IN [dirs |-> {SubSeq(dir, 1, i) : i \in 1..Len(dir)} \cup {Append(dir, WeightsDir)},
      files |-> {dir \o <<WeightsDir, BestPt>>, dir \o <<WeightsDir, LastPt>>}]

\* cell d7f18da3, the library raising
TrainFails ==
  /\ Start("train")
  /\ trainData' = DataArg(hyperparameters)
  /\ trainDoc' = IF Exists(fs, trainData') THEN fs[trainData'].doc ELSE <<>>
  /\ \E exc \in Exceptions("train") : Raise("train", exc)
  /\ UNCHANGED <<shell, fs, datasets_dir, kernel, created, exportArg, reruns>>

\* cell d7f18da3: _ = model.train(**hyperparameters)
Train ==
  /\ Start("train")
  /\ trainData' = DataArg(hyperparameters)
  /\ Exists(fs, trainData')
  /\ trainDoc' = fs[trainData'].doc
  /\ LET out == TrainingOutput(fs, hyperparameters)
         f == MkDirs(fs, out.dirs)
     IN /\ created' = (out.dirs \cup out.files) \ DOMAIN fs
        /\ fs' = [p \in DOMAIN f \cup out.files |->
                    IF p \in out.files THEN File(<<>>) ELSE f[p]]
  /\ bound' = bound \cup {"_"}
  /\ Finish("train")
  /\ UNCHANGED <<shell, datasets_dir, classes, labels, nc, data_yaml,
                 simple_hyperparameters, hyperparameters, exportArg, reruns>>

\* cell e213b55b, the library raising
ValFails ==
  /\ Start("val")
  /\ \E exc \in Exceptions("val") : Raise("val", exc)
  /\ UNCHANGED <<shell, fs, datasets_dir, kernel, training, exportArg, reruns>>

\* cell e213b55b: _ = model.val()
Val ==
  /\ Start("val")
  /\ Finish("val")
  /\ UNCHANGED <<shell, fs, datasets_dir, kernel, training, exportArg, reruns>>

\* the folder the converted model is written to, next to the weights file
ExportOutput(model) ==
  Append(SubSeq(model, 1, Len(model) - 1), <<"b", "e", "s", "t", "_", "s", "a", "v", "e", "d", "_", "m", "o", "d", "e", "l">>)

\* cell 9d72d204: ! yolo export model=... format=tflite.  The command fails
\* when its model file does not exist, and may fail for other reasons.
Export ==
  /\ Start("export")
  /\ exportArg' = SplitPath(ExportModel)
  /\ \E status \in {0, 1} :
       /\ status = 0 => Exists(fs, exportArg')
       /\ shell' = [shell EXCEPT !["export"] = status]
       /\ fs' = IF status = 0 THEN MkDirs(fs, {ExportOutput(exportArg')}) ELSE fs
  /\ Finish("export")
  /\ UNCHANGED <<datasets_dir, kernel, training, reruns>>

\* cells 1a05f1bc and 3b06d0e7 run once more, right after they ran
RerunConfig ==
  /\ pc = "model"
  /\ reruns < MaxReruns
  /\ reruns' = reruns + 1
  /\ runs' = [runs EXCEPT !["assemble"] = @ + 1, !["dump"] = @ + 1]
  /\ labels' = Labels(classes)
  /\ nc' = Nc(labels')
  /\ data_yaml' = DataYaml(nc', labels')
  /\ fs' = Dumped(fs, data_yaml')
  /\ UNCHANGED <<pc, error, raised, completed, shell, datasets_dir, bound, classes,
                 simple_hyperparameters, hyperparameters, training, exportArg>>

Next ==
  \/ Install
  \/ Download
  \/ DownloadFails
  \/ Assemble
  \/ DumpCell
  \/ ModelCell
  \/ ModelFails
  \/ SimpleHp
  \/ Hp
  \/ Train
  \/ TrainFails
  \/ Val
  \/ ValFails
  \/ Export

\* the notebook run from its first cell to its last
Spec == Init /\ [][Next]_vars

NextRerun == Next \/ RerunConfig

\* the same run, the user running the two data.yaml cells again before going on
SpecRerun == Init /\ [][NextRerun]_vars

\* ------------------------------------------------------------ properties
\* the configuration record read back from data.yaml
Written == Load(fs[<<DataYamlFile>>].doc)

IsWritten == "dump" \in completed /\ Exists(fs, <<DataYamlFile>>)

\* C1: in every state from the write of data.yaml on (training, validation
\* and export included), the class count nc of the record in data.yaml is an
\* integer equal to the length of its names list, and so is that of the
\* record data_yaml in the kernel
ClassCountEqualsNames ==
  /\ "data_yaml" \in bound =>
       Get(data_yaml, KNc) = PyInt(Len(Get(data_yaml, KNames).items))
  /\ IsWritten =>
       LET w == Written
       IN /\ Get(w, KNames).type = "list"
          /\ Get(w, KNc) = PyInt(Len(Get(w, KNames).items))

\* the run reached its end for a dataset without classes
ClassCountWitness ==
  /\ pc = "done"
  /\ {"train", "val", "export"} \subseteq completed
  /\ IsWritten
  /\ labels = <<>>
  /\ Get(Written, KNames).items = <<>>
  /\ Get(Written, KNc) = PyInt(0)

\* C2: once training has completed and the export command has run, the
\* model path given to the export command is a path the training call created
ExportConsumesTrainedWeights ==
  ("train" \in completed /\ runs["export"] >= 1) => exportArg \in created

\* the root folder the data loader resolves the record's path entry to
ConfigRoot(cfg) == JoinPath(datasets_dir, Get(cfg, KPath).text)

SplitFolderExists(cfg, k) ==
  Exists(fs, JoinPath(ConfigRoot(cfg), Get(cfg, k).text))

\* C3: when the training call is about to be invoked after a completed
\* download, the folders named by the train, val and test entries of
\* data.yaml exist under its root path; the root is taken as the library
\* resolves it when its datasets_dir is the download location, the setting
\* under which the downloaded folders can be found at all
SplitFoldersExistAtTraining ==
  (pc = "train" /\ IsWritten /\ "download" \in completed
     /\ datasets_dir = <<DownloadLocation>>) =>
     LET w == Written
     IN \A k \in {KTrain, KVal, KTest} : SplitFolderExists(w, k)

\* C4 as stated: data.yaml read back is the record data_yaml, key order
\* included
RoundTripKeepsKeyOrder ==
  IsWritten => Written = data_yaml

\* C4 as amended: data.yaml read back has the items of data_yaml, with the
\* same values and value types, in the sorted order of the keys: names, nc,
\* path, test, train, val
RoundTripKeepsItemsSorted ==
  IsWritten =>
     LET w == Written
     IN /\ w = SortedItems(data_yaml)
        /\ Keys(w) = <<KNames, KNc, KPath, KTest, KTrain, KVal>>
        /\ \A k \in KeySet(data_yaml) : Get(w, k) = Get(data_yaml, k)

\* a record whose names need quoting was written and is read back
RoundTripWitness ==
  /\ IsWritten
  /\ Get(data_yaml, KNames).items = <<PyStr(<<"7">>), PyStr(<<"n", "o">>)>>
  /\ Get(Written, KNames) = Get(data_yaml, KNames)
  /\ Written # data_yaml

\* C5: every code cell is started at most once, and only after every cell
\* above it has run to its end; so training starts only after the download
\* and the write of data.yaml, validation and export only after training
LinearSingleShot ==
  \A c \in CellSet :
     /\ runs[c] <= 1
     /\ runs[c] = 1 => \A i \in 1..(CellIndex(c) - 1) : Cells[i] \in completed
     /\ c \in completed => runs[c] = 1

LinearWitness ==
  /\ pc = "done"
  /\ completed = CellSet
  /\ \A c \in CellSet : runs[c] = 1

\* C6: the record in data.yaml has exactly the six keys path, train, val,
\* test, nc and names, and path, train, val and test have the same values
\* for every dataset
FixedTopLevelKeys ==
  IsWritten =>
     LET w == Written
     IN /\ Len(fs[<<DataYamlFile>>].doc) = 6
        /\ KeySet(w) = {KPath, KTrain, KVal, KTest, KNc, KNames}
        /\ \A k \in {KPath, KTrain, KVal, KTest} :
              Get(w, k) = Get(DataYaml(0, <<>>), k)

FixedKeysWitness ==
  /\ IsWritten
  /\ Len(Get(Written, KNames).items) = 2
  /\ Get(Written, KNc) = PyInt(2)
  /\ Len(Keys(Written)) = 6

\* what a state shows of a call of cell c that did not return
NoResultOf(c) ==
  /\ c \notin completed
  /\ c = "download" => "dataset" \notin bound
  /\ c = "train" => created = {}
  /\ c \in {"train", "val"} => "_" \notin bound \/ "train" \in completed

\* C7: an exception a library raises ends the run in the cell that raised
\* it, with that exception as raised: the cell is not started again, no cell
\* runs after it, and the step that raises binds no result and writes no file
NoRecovery ==
  /\ [](\A r \in raised :
          /\ raised = {r}
          /\ pc = "halted"
          /\ error = r[2]
          /\ runs[r[1]] = 1
          /\ NoResultOf(r[1])
          /\ \A i \in (CellIndex(r[1]) + 1)..Len(Cells) : runs[Cells[i]] = 0)
  /\ [][ /\ pc # "halted"
         /\ raised' # raised => (fs' = fs /\ created' = created /\ raised = {}) ]_vars

\* the training call failed and the run stayed there
NoRecoveryWitness ==
  /\ raised = {<<"train", "out of memory">>}
  /\ pc = "halted"
  /\ error = "out of memory"
  /\ runs["train"] = 1
  /\ runs["val"] = 0

\* C8: from the write of data.yaml on the file holds the document the dump
\* cell wrote, and the training call reads that path and that document
TrainingReadsWrittenFile ==
  /\ "dump" \in completed =>
       /\ Exists(fs, <<DataYamlFile>>)
       /\ fs[<<DataYamlFile>>] = File(Dump(data_yaml))
  /\ runs["train"] >= 1 =>
       /\ trainData = <<DataYamlFile>>
       /\ trainDoc = Dump(data_yaml)

TrainingReadsWitness ==
  /\ "train" \in completed
  /\ trainData = <<DataYamlFile>>
  /\ trainDoc # <<>>
  /\ Len(labels) = 1

\* the names of the record in data.yaml
WrittenNames == Get(Written, KNames).items

\* C9: the names list of data.yaml has pairwise distinct entries, and nc is
\* the number of distinct names
NamesAreDistinct ==
  IsWritten =>
     LET w == Written
         names == Get(w, KNames).items
     IN /\ \A i, j \in 1..Len(names) : names[i] = names[j] => i = j
        /\ Get(w, KNc) = PyInt(Cardinality({names[i] : i \in 1..Len(names)}))

\* two classes, one of them annotated more than once
NamesDistinctWitness ==
  /\ IsWritten
  /\ Len(WrittenNames) = 2
  /\ \E i \in 1..Len(classes) : classes[i][2].num = 2

\* C10: running the two data.yaml cells again leaves data.yaml and every
\* other file as they are after the first run, and leaves the kernel's names
\* and the rest of the run as they are
RerunIsIdempotent ==
  [][ reruns' # reruns =>
        /\ fs' = fs
        /\ fs'[<<DataYamlFile>>] = File(Dump(data_yaml))
        /\ UNCHANGED <<kernel, training, pc, error, raised, completed, shell,
                       datasets_dir, exportArg>> ]_vars

\* the cells were run again as often as the bound allows
RerunWitness ==
  /\ reruns = MaxReruns
  /\ runs["dump"] = MaxReruns + 1
  /\ Len(labels) = 2
  /\ fs[<<DataYamlFile>>] = File(Dump(data_yaml))

====
